---------------------------- MODULE Spec2Model ----------------------------
(***************************************************************************)
(* A model of src/src/App.jsx: the App component's state, the marker       *)
(* fetch, the locationfound handler, the Zoom button, the ZoomToMarker     *)
(* effect and the distance / nearest-marker effect, together with          *)
(* haversineDistance.                                                      *)
(*                                                                         *)
(* Numbers.  JavaScript numbers are IEEE-754 doubles.  They are modelled   *)
(* as fixed-point integers with Scale units per 1.0; every operation       *)
(* rounds to the nearest unit, symmetrically in the sign, as IEEE          *)
(* rounding does.  NaN is a value of its own: Math.sqrt of a negative      *)
(* number is NaN, NaN propagates through atan2 and the products, and every *)
(* comparison with NaN is false.  Rounding can push the haversine term `a` *)
(* above 1 for antipodal points, in doubles (observer [12, 0], marker      *)
(* [-12, 180] gives a = 1.0000000000000002) as in the fixed-point model.   *)
(*                                                                         *)
(* React.  A state setter queues the new value; the component function is  *)
(* run again (Render) and the effects whose dependencies changed are run   *)
(* after the commit (FlushEffects) with the values that render captured.   *)
(* Pending effects are always flushed before the next render.  An error    *)
(* thrown by an effect, there being no error boundary, unmounts the tree.  *)
(***************************************************************************)
EXTENDS Integers, Sequences, FiniteSets

(***************************************************************************)
(* Bounds and input sets                                                   *)
(***************************************************************************)
\* the longest marker list the API answers with
MaxMarkers == 3

\* fixed-point units per 1.0
Scale == 10000

\* the markers the API may return, in any order and any selection
Catalogue ==
  { [id |-> 1, name |-> "east",     latitude |-> 0,   longitude |-> 30],
    [id |-> 2, name |-> "west",     latitude |-> 0,   longitude |-> -30],
    [id |-> 3, name |-> "antipode", latitude |-> -12, longitude |-> 180],
    [id |-> 4, name |-> "far",      latitude |-> 0,   longitude |-> 90] }

\* the coordinates a locationfound event may report
Fixes == { <<0, 0>>, <<12, 0>> }

\* the coordinates haversineDistance is measured on when taken alone
Lats == { -90, -12, 0, 12, 45, 90 }
Lons == { -180, -30, 0, 30, 90, 180 }
Coords == Lats \X Lons

RECURSIVE SeqsNoRepeat(_, _)
SeqsNoRepeat(S, n) ==
  IF n = 0 THEN { <<>> }
  ELSE LET shorter == SeqsNoRepeat(S, n - 1)
       IN  shorter \cup { Append(s, m) : s \in { t \in shorter : Len(t) = n - 1 },
                                          m \in S }

HasRepeat(s) == \E i, j \in 1..Len(s) : i < j /\ s[i].id = s[j].id

\* the JSON arrays the API may answer with: ids are unique
Responses == { s \in SeqsNoRepeat(Catalogue, MaxMarkers) : ~HasRepeat(s) }

\* null, for a state that holds either null or an array
Null == <<>>

(***************************************************************************)
(* Numbers                                                                 *)
(***************************************************************************)
NaN == -1

IsNaN(x) == x = NaN

\* a / b rounded to the nearest integer, ties away from zero (b > 0)
RDiv(a, b) ==
  IF a >= 0 THEN (a + b \div 2) \div b
  ELSE -(((-a) + b \div 2) \div b)

\* the product of two fixed-point numbers
Mul(x, y) == RDiv(x * y, Scale)

\* Math.PI, rounded to the unit (355 / 113 agrees with it to seven digits)
PI == RDiv(355 * Scale, 113)

\* x < y on numbers: false when either is NaN
Less(x, y) == ~IsNaN(x) /\ ~IsNaN(y) /\ x < y

toRad(x) == RDiv(x * PI, 180)

RECURSIVE SinSeries(_, _, _)
SinSeries(t, x, n) ==
  IF t = 0 THEN 0
  ELSE t + SinSeries(-RDiv(Mul(RDiv(Mul(t, x), 2 * n + 2), x), 2 * n + 3), x, n + 1)

\* Math.sin, by its Taylor series, |x| <= PI
Sin(x) == SinSeries(x, x, 0)

RECURSIVE CosSeries(_, _, _)
CosSeries(t, x, n) ==
  IF t = 0 THEN 0
  ELSE t + CosSeries(-RDiv(Mul(RDiv(Mul(t, x), 2 * n + 1), x), 2 * n + 2), x, n + 1)

\* Math.cos, by its Taylor series, |x| <= PI
Cos(x) == CosSeries(Scale, x, 0)

RECURSIVE FloorSqrt(_, _, _)
FloorSqrt(v, lo, hi) ==
  IF lo = hi THEN lo
  ELSE LET mid == (lo + hi + 1) \div 2
       IN  IF mid * mid <= v THEN FloorSqrt(v, mid, hi) ELSE FloorSqrt(v, lo, mid - 1)

\* Math.sqrt: NaN below zero
Sqrt(x) ==
  IF x < 0 THEN NaN
  ELSE LET v == x * Scale
           r == FloorSqrt(v, 0, 2 * Scale)
       IN  IF v - r * r > r THEN r + 1 ELSE r

RECURSIVE AtanSeries(_, _, _)
AtanSeries(p, u, n) ==
  LET term == RDiv(p, 2 * n + 1)
  IN  IF term = 0 THEN 0
      ELSE (IF n % 2 = 0 THEN term ELSE -term) + AtanSeries(Mul(Mul(p, u), u), u, n + 1)

\* atan t for 0 <= t <= 1: atan t = 2 atan (t / (1 + sqrt (1 + t^2)))
Atan(t) ==
  LET u == RDiv(t * Scale, Scale + Sqrt(Scale + Mul(t, t)))
  IN  2 * AtanSeries(u, u, 0)

\* Math.atan2 (y, x) where both are square roots: not negative, or NaN
Atan2(y, x) ==
  IF IsNaN(y) \/ IsNaN(x) THEN NaN
  ELSE IF y = 0 /\ x = 0 THEN 0
  ELSE IF y <= x THEN Atan(RDiv(y * Scale, x))
  ELSE RDiv(PI, 2) - Atan(RDiv(x * Scale, y))

\* a plausible slip: the cosine of the first latitude taken twice
haversineDistanceOneLatitude(coords1, coords2) ==
  LET lat1 == coords1[1]
      lon1 == coords1[2]
      lat2 == coords2[1]
      lon2 == coords2[2]
      R    == 6371
      dLat == toRad(lat2 - lat1)
      dLon == toRad(lon2 - lon1)
      a    == Mul(Sin(RDiv(dLat, 2)), Sin(RDiv(dLat, 2)))
              + Mul(Mul(Mul(Cos(toRad(lat1)), Cos(toRad(lat1))), Sin(RDiv(dLon, 2))),
                    Sin(RDiv(dLon, 2)))
      c    == Atan2(Sqrt(a), Sqrt(Scale - a))
  IN  IF IsNaN(c) THEN NaN ELSE R * (2 * c)

\* the distance in km, in fixed point, or NaN
haversineDistance(coords1, coords2) ==
  LET lat1 == coords1[1]
      lon1 == coords1[2]
      lat2 == coords2[1]
      lon2 == coords2[2]
      R    == 6371
      dLat == toRad(lat2 - lat1)
      dLon == toRad(lon2 - lon1)
      a    == Mul(Sin(RDiv(dLat, 2)), Sin(RDiv(dLat, 2)))
              + Mul(Mul(Mul(Cos(toRad(lat1)), Cos(toRad(lat2))), Sin(RDiv(dLon, 2))),
                    Sin(RDiv(dLon, 2)))
      c    == Atan2(Sqrt(a), Sqrt(Scale - a))
  IN  IF IsNaN(c) THEN NaN ELSE R * (2 * c)

\* haversineDistance on the pairs the application meets, evaluated once
haversineMemo ==
  { [ coords1 |-> p[1], coords2 |-> p[2], d |-> haversineDistance(p[1], p[2]) ] :
      p \in (Fixes \cup { <<0, 0>> }) \X { <<m.latitude, m.longitude>> : m \in Catalogue } }

\* the call haversineDistance(position, [marker.latitude, marker.longitude])
distanceTo(pos, geocode) ==
  IF \E r \in haversineMemo : r.coords1 = pos /\ r.coords2 = geocode
  THEN (CHOOSE r \in haversineMemo : r.coords1 = pos /\ r.coords2 = geocode).d
  ELSE haversineDistance(pos, geocode)

(***************************************************************************)
(* State                                                                   *)
(***************************************************************************)
VARIABLES
  position,        \* useState([0, 0])
  distances,       \* useState([])
  locationEnabled, \* useState(false)
  zoomTarget,      \* useState(null)
  nearestMarker,   \* useState(null): Null, or <<marker>>
  markers,         \* useState([])
  fetchState,      \* the promise of the fetch: "pending", "done" or "failed"
  changed,         \* the states set since the last render
  closure,         \* the values the last render handed to its effects
  pending,         \* the effects the last render scheduled
  mounted,         \* FALSE once an effect has thrown
  zoomView,        \* the last map.setView of ZoomToMarker: Null, or <<[center, zoom]>>
  lastFix,         \* the coordinate of the last locationfound event, or Null
  lastRequest,     \* the coordinate of the row of the last Zoom click, or Null
  probe            \* a pair of coordinates and haversineDistance both ways

appState == <<position, distances, locationEnabled, zoomTarget, nearestMarker, markers>>
runtime  == <<fetchState, changed, closure, pending, mounted, zoomView>>
history  == <<lastFix, lastRequest>>
vars     == <<appState, runtime, history, probe>>

\* the dependency arrays of the two effects
ZoomDeps == { "zoomTarget" }
RankDepsWithoutMarkers == { "position", "locationEnabled" }
RankDeps == { "position", "locationEnabled", "markers" }

\* what a render captures for its effects
Captured ==
  [ position |-> position, locationEnabled |-> locationEnabled,
    markers |-> markers, zoomTarget |-> zoomTarget ]

IdleProbe == [ coords1 |-> <<0, 0>>, coords2 |-> <<0, 0>>, measured |-> FALSE,
               forward |-> 0, backward |-> 0 ]

AppInit ==
  /\ position = <<0, 0>>
  /\ distances = <<>>
  /\ locationEnabled = FALSE
  /\ zoomTarget = Null
  /\ nearestMarker = Null
  /\ markers = <<>>
  /\ fetchState = "pending"
  /\ changed = {}
  /\ closure = Captured
  /\ pending = {}
  /\ mounted = TRUE
  /\ zoomView = Null
  /\ lastFix = Null
  /\ lastRequest = Null

\* the component mounted: the fetch is issued, the handler registered, and the
\* first run of the distance effect has left distances = [] and nearest = null
Init == AppInit /\ probe = IdleProbe

(***************************************************************************)
(* The distance / nearest-marker effect                                    *)
(***************************************************************************)
\* a plausible slip: the distance computed whether or not a fix was found
newDistancesAlways(ms, pos, enabled) ==
  [ i \in 1..Len(ms) |->
      [ id |-> ms[i].id, name |-> ms[i].name,
        latitude |-> ms[i].latitude, longitude |-> ms[i].longitude,
        geocode |-> <<ms[i].latitude, ms[i].longitude>>,
        distance |-> distanceTo(pos, <<ms[i].latitude, ms[i].longitude>>) ] ]

RECURSIVE InsertByDistance(_, _)
InsertByDistance(rows, r) ==
  IF rows = <<>> THEN << r >>
  ELSE IF Less(r.distance, Head(rows).distance) THEN << r >> \o rows
  ELSE << Head(rows) >> \o InsertByDistance(Tail(rows), r)

RECURSIVE SortByDistance(_)
SortByDistance(rows) ==
  IF rows = <<>> THEN <<>>
  ELSE InsertByDistance(SortByDistance(SubSeq(rows, 1, Len(rows) - 1)), rows[Len(rows)])

\* a plausible slip: the table sorted by distance as it is built
newDistancesSorted(ms, pos, enabled) ==
  SortByDistance(
    [ i \in 1..Len(ms) |->
        [ id |-> ms[i].id, name |-> ms[i].name,
          latitude |-> ms[i].latitude, longitude |-> ms[i].longitude,
          geocode |-> <<ms[i].latitude, ms[i].longitude>>,
          distance |-> IF enabled
                       THEN distanceTo(pos, <<ms[i].latitude, ms[i].longitude>>)
                       ELSE 0 ] ])

\* markers.map(...): each marker with its geocode and its distance
newDistances(ms, pos, enabled) ==
  [ i \in 1..Len(ms) |->
      [ id |-> ms[i].id, name |-> ms[i].name,
        latitude |-> ms[i].latitude, longitude |-> ms[i].longitude,
        geocode |-> <<ms[i].latitude, ms[i].longitude>>,
        distance |-> IF enabled
                     THEN distanceTo(pos, <<ms[i].latitude, ms[i].longitude>>)
                     ELSE 0 ] ]

RECURSIVE Reduce(_, _, _)
Reduce(ds, i, prev) ==
  IF i > Len(ds) THEN prev
  ELSE Reduce(ds, i + 1, IF Less(prev.distance, ds[i].distance) THEN prev ELSE ds[i])

\* newDistances.reduce((prev, curr) => ...) without an initial value, on a
\* list that is not empty
nearest(ds) == Reduce(ds, 2, ds[1])

\* reduce of an empty array with no initial value throws a TypeError
Throws(ds, enabled) == enabled /\ ds = <<>>

(***************************************************************************)
(* Handlers                                                                *)
(***************************************************************************)
\* a plausible slip: the fix enables the distances and is not stored
LocationFoundOnlyEnables(e) ==
  [ position |-> position, locationEnabled |-> TRUE ]

\* map.on("locationfound", ...)
LocationFoundHandler(e) ==
  [ position |-> e, locationEnabled |-> TRUE ]

\* a plausible slip: a target that is set is kept until it is consumed
ZoomOnClickKeepsFirst(marker) ==
  IF zoomTarget = Null THEN <<marker.latitude, marker.longitude>> ELSE zoomTarget

\* onClick of a row's Zoom button: the new zoomTarget
ZoomOnClick(marker) == <<marker.latitude, marker.longitude>>

\* a plausible slip: a failed fetch falls back on a built-in list
FetchCatchFallback ==
  [ markers |-> <<[id |-> 1, name |-> "east", latitude |-> 0, longitude |-> 30]>> ]

\* .catch(error => console.error(...)): the state is left alone
FetchCatch == [ markers |-> markers ]

(***************************************************************************)
(* Actions                                                                 *)
(***************************************************************************)
\* .then(data => setMarkers(data)); a setter of an unmounted component does
\* nothing
FetchResolve(data) ==
  /\ fetchState = "pending"
  /\ fetchState' = "done"
  /\ IF mounted
     THEN markers' = data /\ changed' = changed \cup { "markers" }
     ELSE UNCHANGED <<markers, changed>>
  /\ UNCHANGED <<position, distances, locationEnabled, zoomTarget, nearestMarker>>
  /\ UNCHANGED <<closure, pending, mounted, zoomView, history, probe>>

\* the request or response.json() fails
FetchReject ==
  /\ fetchState = "pending"
  /\ fetchState' = "failed"
  /\ markers' = FetchCatch.markers
  /\ changed' = IF markers' # markers THEN changed \cup { "markers" } ELSE changed
  /\ UNCHANGED <<position, distances, locationEnabled, zoomTarget, nearestMarker>>
  /\ UNCHANGED <<closure, pending, mounted, zoomView, history, probe>>

\* the map reports a fix
LocationFound(e) ==
  /\ mounted
  /\ position' = LocationFoundHandler(e).position
  /\ locationEnabled' = LocationFoundHandler(e).locationEnabled
  /\ changed' = changed \cup { "position" }
                  \cup (IF locationEnabled' # locationEnabled
                        THEN { "locationEnabled" } ELSE {})
  /\ lastFix' = e
  /\ UNCHANGED <<distances, zoomTarget, nearestMarker, markers>>
  /\ UNCHANGED <<fetchState, closure, pending, mounted, zoomView, lastRequest, probe>>

\* the Zoom button of the i-th row of the table
ZoomClick(i) ==
  /\ mounted
  /\ i \in 1..Len(distances)
  /\ zoomTarget' = ZoomOnClick(distances[i])
  /\ lastRequest' = distances[i].geocode
  /\ changed' = changed \cup { "zoomTarget" }
  /\ UNCHANGED <<position, distances, locationEnabled, nearestMarker, markers>>
  /\ UNCHANGED <<fetchState, closure, pending, mounted, zoomView, lastFix, probe>>

\* App runs again: the effects whose dependencies were set are scheduled
Render ==
  /\ mounted
  /\ changed # {}
  /\ pending = {}
  /\ closure' = Captured
  /\ pending' = (IF ZoomDeps \cap changed # {} THEN { "zoom" } ELSE {})
                  \cup (IF RankDeps \cap changed # {} THEN { "rank" } ELSE {})
  /\ changed' = {}
  /\ UNCHANGED <<appState, fetchState, mounted, zoomView, history, probe>>

\* the effects of the last commit, the child's first: ZoomToMarker's, then
\* App's distance effect
FlushEffects ==
  LET runZoom == "zoom" \in pending
      runRank == "rank" \in pending
      nd      == newDistances(closure.markers, closure.position, closure.locationEnabled)
      throws  == runRank /\ Throws(nd, closure.locationEnabled)
  IN  /\ mounted
      /\ pending # {}
      /\ zoomView' = IF runZoom /\ closure.zoomTarget # Null
                     THEN << [center |-> closure.zoomTarget, zoom |-> 16] >>
                     ELSE zoomView
      /\ distances' = IF runRank THEN nd ELSE distances
      /\ nearestMarker' = IF runRank /\ ~throws
                          THEN (IF closure.locationEnabled THEN << nearest(nd) >> ELSE Null)
                          ELSE nearestMarker
      /\ mounted' = ~throws
      /\ pending' = {}
      /\ UNCHANGED <<position, locationEnabled, zoomTarget, markers>>
      /\ UNCHANGED <<fetchState, changed, closure, history, probe>>

Next ==
  \/ \E data \in Responses : FetchResolve(data)
  \/ FetchReject
  \/ \E e \in Fixes : LocationFound(e)
  \/ \E i \in 1..MaxMarkers : ZoomClick(i)
  \/ Render
  \/ FlushEffects

Spec == Init /\ [][Next]_vars

(***************************************************************************)
(* haversineDistance on its own                                            *)
(***************************************************************************)
InitDistance ==
  /\ AppInit
  /\ probe \in [ coords1 : Coords, coords2 : Coords, measured : { FALSE },
                 forward : { 0 }, backward : { 0 } ]

Measure ==
  /\ ~probe.measured
  /\ probe' = [ probe EXCEPT !.measured = TRUE,
                             !.forward = haversineDistance(probe.coords1, probe.coords2),
                             !.backward = haversineDistance(probe.coords2, probe.coords1) ]
  /\ UNCHANGED <<appState, runtime, history>>

NextDistance == Measure

SpecDistance == InitDistance /\ [][NextDistance]_vars

(***************************************************************************)
(* Properties                                                              *)
(***************************************************************************)
\* nothing is queued: every state set has been rendered and its effects run
Settled == changed = {} /\ pending = {}

\* the ranking of the current inputs, as the effect computes it
CurrentRanked == newDistances(markers, position, locationEnabled)

\* the rows with no strictly smaller row
MinimalRows(ds) ==
  { i \in 1..Len(ds) : \A j \in 1..Len(ds) : ~Less(ds[j].distance, ds[i].distance) }

NoNaN(ds) == \A i \in 1..Len(ds) : ~IsNaN(ds[i].distance)

FirstOf(S) == CHOOSE i \in S : \A j \in S : i <= j

\* C1: ranking an empty marker list gives an empty table and no nearest
\* marker whatever the observer state, a found location included, and the
\* effect raises no error.
C1_EmptyListRanksWithoutError ==
  (pending = {} /\ closure.markers = <<>>)
    => (mounted /\ distances = <<>> /\ nearestMarker = Null)

\* C2: with a location found and two or more markers tied for the smallest
\* distance, the nearest marker is the first of the tied ones in the list.
C2_FirstTiedMarkerIsNearest ==
  (Settled /\ mounted /\ locationEnabled /\ NoNaN(distances)
     /\ Cardinality(MinimalRows(distances)) >= 2)
    => nearestMarker = << distances[FirstOf(MinimalRows(distances))] >>

\* C3: a nearest marker that is set is a row of the table of the same
\* recompute, and no row of that table has a strictly smaller distance.
C3_NearestIsMinimalRow ==
  nearestMarker # Null
    => /\ \E i \in 1..Len(distances) : distances[i] = nearestMarker[1]
       /\ \A i \in 1..Len(distances) :
            ~Less(distances[i].distance, nearestMarker[1].distance)

\* C4: while no location has been found every row has distance 0 and there is
\* no nearest marker, whatever markers are loaded.
C4_DisabledMeansZeroAndNoNearest ==
  ~locationEnabled
    => /\ \A i \in 1..Len(distances) : distances[i].distance = 0
       /\ nearestMarker = Null

C4_Witness == ~locationEnabled /\ Settled /\ Len(distances) >= 2

\* C5: after a recompute the table is as long as the marker list it was
\* computed from and its i-th row carries the fields of the i-th marker.
C5_TableMirrorsMarkers ==
  "rank" \notin pending
    => /\ Len(distances) = Len(closure.markers)
       /\ \A i \in 1..Len(distances) :
            /\ distances[i].id = closure.markers[i].id
            /\ distances[i].name = closure.markers[i].name
            /\ distances[i].latitude = closure.markers[i].latitude
            /\ distances[i].longitude = closure.markers[i].longitude

\* a table of three rows whose distances are not in ascending order
C5_Witness ==
  /\ "rank" \notin pending
  /\ locationEnabled
  /\ Len(distances) = 3
  /\ \E i, j \in 1..Len(distances) :
       i < j /\ Less(distances[j].distance, distances[i].distance)

\* C6: whatever the order of the fetch completion and the location events,
\* once nothing is queued the table and the nearest marker are the ranking of
\* the current markers, position and locationEnabled.  (After the TypeError
\* of an empty reduce the state keeps an empty table and no nearest marker.)
C6_SettledStateRanksCurrentInputs ==
  Settled
    => /\ distances = CurrentRanked
       /\ nearestMarker = IF locationEnabled /\ CurrentRanked # <<>>
                          THEN << nearest(CurrentRanked) >>
                          ELSE Null

\* the fix came first and the markers later, and a second fix after them
C6_Witness ==
  /\ Settled
  /\ fetchState = "done"
  /\ Len(markers) >= 2
  /\ position = <<12, 0>>
  /\ nearestMarker # Null

\* C7: a failed fetch is caught, leaves markers empty for good (there is no
\* retry) and changes neither position, locationEnabled nor zoomTarget.
C7_FailedFetchLeavesStateAlone ==
  [][ /\ (fetchState = "pending" /\ fetchState' = "failed")
           => /\ markers' = <<>>
              /\ mounted' = mounted
              /\ UNCHANGED <<position, locationEnabled, zoomTarget>>
      /\ fetchState = "failed" => (fetchState' = "failed" /\ markers' = <<>>)
    ]_vars

C7_Witness == fetchState = "failed" /\ markers = <<>> /\ lastFix # Null

\* C8: zoomTarget is the coordinate of the latest Zoom request, the map is
\* set to it at zoom level 16 once its effect has run, and with no request
\* made zoomTarget is null and ZoomToMarker has not moved the map.
C8_LatestZoomRequestWins ==
  /\ zoomTarget = lastRequest
  /\ lastRequest = Null => zoomView = Null
  /\ (Settled /\ lastRequest # Null)
       => zoomView = << [center |-> lastRequest, zoom |-> 16] >>

\* a second request for another row, made after the first moved the map
C8_Witness ==
  /\ zoomView # Null
  /\ zoomTarget # Null
  /\ zoomView[1].center # zoomTarget

C10_EnabledPositionIsLastFix ==
  /\ [](locationEnabled => (lastFix # Null /\ position = lastFix))
  /\ [][locationEnabled => locationEnabled']_vars

C10_Witness ==
  /\ locationEnabled
  /\ position = <<12, 0>>
  /\ nearestMarker # Null

=============================================================================
